---- MODULE Spec2Model ----
(***************************************************************************)
(* A model of rss-podcast-downloader.py: main() fetches the feed once,     *)
(* parse_and_download() counts the audio entries, then walks the entries   *)
(* and their links in order, calling download_file() (bounded retry with   *)
(* exponential backoff) for every audio/mpeg link and save_text_file()     *)
(* after a successful download when --save_text is given.                  *)
(*                                                                         *)
(* Strings are sequences of one-character strings.  An HTTP request, the   *)
(* open() of a file and the write() to it are the program's only inputs    *)
(* from outside: each is a nondeterministic choice between its outcomes.   *)
(* An exception no handler of the program catches ends the process with a  *)
(* traceback and exit status 1 (pc = "crashed").                           *)
(***************************************************************************)
EXTENDS Integers, Sequences, FiniteSets, TLC

\* ------------------------------------------------------------- bounds
MaxEntries == 2        \* entries of a feed
MaxLinks == 2          \* links of one entry
MaxAudioLinks == 2     \* audio/mpeg links of a feed, over all its entries
MaxRetries == 4        \* the retries argument of a stand-alone download_file call
MaxTitleLen == 2       \* characters of a title given to sanitize_title

\* -------------------------------------------------- program constants
DefaultRetries == 3    \* download_file(url, filename, retries=3)
BackoffBase == 2       \* sleep_time = 2 ** attempt
PaceSeconds == 1       \* time.sleep(1)

\* ------------------------------------------------------------- values
AudioType == "audio/mpeg"
OtherType == "text/html"
LinkTypes == {AudioType, OtherType}

NoDate == "no-date"        \* the entry has no 'published' key (date_str = None)
ValueError == "ValueError"

GoodDate == "Mon, 02 Jan 2023 10:00:00 GMT"
BadDate == "Mon, 02 Jan 2023 10:00:00 +0000"
EmptyDate == ""

\* ---------------------------------------------------- sanitize_title
\* the character class without the vertical bar
IllegalCharsWithoutBar == {"\\", "/", "*", "?", ":", "\"", "<", ">"}

\* [\\/*?:"<>|]
IllegalChars == {"\\", "/", "*", "?", ":", "\"", "<", ">", "|"}

UpperToLower ==
  [c \in {"A", "B", "E", "M"} |->
     CASE c = "A" -> "a" [] c = "B" -> "b" [] c = "E" -> "e" [] c = "M" -> "m"]

\* str.lower() on one character
LowerChar(c) == IF c \in DOMAIN UpperToLower THEN UpperToLower[c] ELSE c

\* re.sub(r'[\\/*?:"<>|]', '', title)
RemoveIllegal(s) == SelectSeq(s, LAMBDA c : c \notin IllegalChars)

\* .replace(' ', '_')
SpacesToUnderscores(s) == [i \in 1..Len(s) |-> IF s[i] = " " THEN "_" ELSE s[i]]

\* .lower()
Lower(s) == [i \in 1..Len(s) |-> LowerChar(s[i])]

\* datetime.strptime(date_str, '%a, %d %b %Y %H:%M:%S %Z').strftime('%Y-%m-%d'):
\* %Z accepts a time zone name (GMT, UTC), never a numeric offset
DateFormatted(date_str) ==
  IF date_str = GoodDate
    THEN <<"2", "0", "2", "3", "-", "0", "1", "-", "0", "2">>
    ELSE ValueError

\* a date that does not parse is prepended as it is
DatePrefixKeepsUnparsed(date_str) ==
  IF date_str \in {NoDate, EmptyDate} THEN <<>>
  ELSE IF DateFormatted(date_str) # ValueError THEN DateFormatted(date_str) \o <<"_">>
  ELSE <<"?", "_">>

\* if date_str: try: ... f'{date_formatted}_...' except ValueError: logging.error(...)
DatePrefix(date_str) ==
  IF date_str \notin {NoDate, EmptyDate} /\ DateFormatted(date_str) # ValueError
    THEN DateFormatted(date_str) \o <<"_">>
    ELSE <<>>

sanitize_title(title, date_str) ==
  LET sanitized_title == Lower(SpacesToUnderscores(RemoveIllegal(title)))
  IN DatePrefix(date_str) \o sanitized_title

\* ------------------------------------------------------------ inputs
\* an entry's title: the 'title' key may be missing (hasTitle = FALSE)
NoTitle == [hasTitle |-> FALSE, text |-> <<>>]
Title(t) == [hasTitle |-> TRUE, text |-> t]
RunTitles == {NoTitle, Title(<<"A">>), Title(<<"a", "?">>)}
RunDates == {NoDate, GoodDate, BadDate}
\* the (title, published) pairs of the entries of a run: no title; a title under a
\* date that parses; a title with an illegal character under a date that does not
EntryTexts ==
  {<<NoTitle, NoDate>>, <<Title(<<"A">>), GoodDate>>, <<Title(<<"a", "?">>), BadDate>>}

\* an entry's links: the 'links' key is missing (hasLinks = FALSE), or it holds a
\* non-empty list of links, each with its type
NoLinks == [hasLinks |-> FALSE, list |-> <<>>]
LinkLists ==
  {NoLinks} \cup
  {[hasLinks |-> TRUE, list |-> l] : l \in UNION {[1..n -> LinkTypes] : n \in 1..MaxLinks}}

\* entry.get('links', []): the list, empty when the key is missing
LinksOrEmpty(e) == IF e.links.hasLinks THEN e.links.list ELSE <<>>

\* any(link.type == 'audio/mpeg' for link in entry.get('links', []))
HasAudio(e) == \E i \in 1..Len(LinksOrEmpty(e)) : LinksOrEmpty(e)[i] = AudioType

\* title and published are read only for an entry with an audio link
Entries ==
  {e \in [links : LinkLists, title : RunTitles, published : RunDates] :
     IF HasAudio(e) THEN <<e.title, e.published>> \in EntryTexts
                    ELSE e.title = NoTitle /\ e.published = NoDate}

\* the audio/mpeg links of an entry, of the first n entries of a feed
AudioCount(e) ==
  Cardinality({i \in 1..Len(LinksOrEmpty(e)) : LinksOrEmpty(e)[i] = AudioType})
RECURSIVE TotalAudio(_, _)
TotalAudio(f, n) == IF n = 0 THEN 0 ELSE AudioCount(f[n]) + TotalAudio(f, n - 1)

Feeds ==
  {f \in UNION {[1..n -> Entries] : n \in 0..MaxEntries} :
     TotalAudio(f, Len(f)) <= MaxAudioLinks}

\* --------------------------------------------------------- file names
SaveDir == <<"d", "/">>
Extension == <<".", "m", "p", "3">>
TxtSuffix == <<".", "t", "x", "t">>

\* os.path.join(save_dir, title + file_extension)
FileName(stem) == SaveDir \o stem \o Extension

\* link.href of the j-th link of the i-th entry
Href(i, j) == <<i, j>>
StandaloneUrl == <<0, 0>>
StandaloneFile == FileName(<<"x">>)

\* what a file holds
Body(u) == [kind |-> "body", src |-> u]          \* response.content of url u
Partial(u) == [kind |-> "partial", src |-> u]    \* opened 'wb', write failed
Old == [kind |-> "old", src |-> <<0, 0>>]        \* there before the run
Meta(i) == [kind |-> "meta", src |-> <<i, 0>>]   \* the four lines of entry i
MetaPartial(i) == [kind |-> "meta-partial", src |-> <<i, 0>>]

NoFiles == [p \in {} |-> Old]
WriteFile(fs, path, c) == [p \in DOMAIN fs \cup {path} |-> IF p = path THEN c ELSE fs[p]]

\* an event of one download_file call
Ev(e, n) == [ev |-> e, n |-> n]
GetFail == Ev("get-fail", 0)
GetOk == Ev("get-ok", 0)
Wrote == Ev("write", 0)
Slept(n) == Ev("sleep", n)

RECURSIVE Pow(_, _)
Pow(b, e) == IF e = 0 THEN 1 ELSE b * Pow(b, e - 1)

\* ------------------------------------------------------------- state
VARIABLES
  feed,                  \* feedparser.parse(content).entries
  save_text,             \* args.save_text
  pc,                    \* where the program is
  content,               \* what fetch_rss_feed returned: "none", "empty", "feed"
  fetchResult,           \* "none", "ok", "failed"
  exitCode,              \* -1 while running, then the process's exit status
  exc,                   \* the exception being raised, "none" otherwise
  ei, li,                \* the entry and the link the loops are at
  total_audio_files, audio_file_counter, successful_downloads,
  url, filename, retries, attempt,     \* download_file's arguments and local
  result,                \* download_file's return value: "none", "true", "false"
  files,                 \* the file system: path -> what the file holds
  filesAtCall,           \* files when download_file was called
  calltrace,             \* the events of the download_file call, in order
  fetchCount,            \* GETs of the feed URL
  getCount,              \* GETs in all
  audioWrites,           \* completed writes of an audio file
  writtenPaths,          \* the paths download_file has written, in order
  metaWrites,            \* completed writes of a metadata file
  attempted,             \* the urls passed to download_file, in order
  trueReturns, falseReturns,  \* download_file calls that returned true, false
  fsErrors,              \* OSErrors raised by open() or write()
  paceSleeps             \* the seconds of each time.sleep(1) call, in order

vars ==
  <<feed, save_text, pc, content, fetchResult, exitCode, exc, ei, li,
    total_audio_files, audio_file_counter, successful_downloads,
    url, filename, retries, attempt, result, files, filesAtCall, calltrace,
    fetchCount, getCount, audioWrites, writtenPaths, metaWrites, attempted,
    trueReturns, falseReturns, fsErrors, paceSleeps>>

inputVars == <<feed, save_text>>
mainVars == <<content, fetchResult, exitCode, fetchCount>>
loopVars == <<ei, li, total_audio_files, audio_file_counter, successful_downloads>>
callVars == <<url, filename, retries, attempt, result, filesAtCall, calltrace>>
runLog == <<audioWrites, writtenPaths, metaWrites, attempted, trueReturns, falseReturns, paceSleeps>>

\* ------------------------------------------------------ initial state
NoCall ==
  /\ url = StandaloneUrl /\ filename = StandaloneFile /\ retries = 0
  /\ attempt = 0 /\ result = "none" /\ filesAtCall = NoFiles /\ calltrace = <<>>

CleanLog ==
  /\ fetchCount = 0 /\ getCount = 0 /\ audioWrites = 0 /\ metaWrites = 0
  /\ writtenPaths = <<>>
  /\ attempted = <<>> /\ trueReturns = 0 /\ falseReturns = 0 /\ fsErrors = 0
  /\ paceSleeps = <<>>

\* main() is entered: nothing fetched, save_dir holds nothing of this run
Init ==
  /\ feed \in Feeds
  /\ save_text \in BOOLEAN
  /\ pc = "fetch"
  /\ content = "none" /\ fetchResult = "none" /\ exitCode = -1 /\ exc = "none"
  /\ ei = 0 /\ li = 0
  /\ total_audio_files = 0 /\ audio_file_counter = 0 /\ successful_downloads = 0
  /\ files = NoFiles
  /\ NoCall
  /\ CleanLog

\* ------------------------------------------------------ fetch_rss_feed
\* requests.get + raise_for_status succeed; the body is empty (and then holds no
\* entry) or not
FetchOk ==
  /\ pc = "fetch"
  /\ \E c \in {"empty", "feed"} :
       /\ c = "empty" => feed = <<>>
       /\ content' = c
  /\ fetchResult' = "ok"
  /\ fetchCount' = fetchCount + 1
  /\ getCount' = getCount + 1
  /\ pc' = "fetched"
  /\ UNCHANGED <<inputVars, exitCode, exc, loopVars, callVars, files, audioWrites, writtenPaths,
                 metaWrites, attempted, trueReturns, falseReturns, fsErrors, paceSleeps>>

\* a fetch_rss_feed that logs the failure and forgets exit(1): it returns None
FetchFailReturnsNone ==
  /\ pc = "fetch"
  /\ fetchResult' = "failed"
  /\ fetchCount' = fetchCount + 1
  /\ getCount' = getCount + 1
  /\ pc' = "fetched"
  /\ UNCHANGED <<inputVars, content, exitCode, exc, loopVars, callVars, files,
                 audioWrites, writtenPaths, metaWrites, attempted, trueReturns, falseReturns,
                 fsErrors, paceSleeps>>

\* a RequestException (network failure or raise_for_status): log, exit(1)
FetchFail ==
  /\ pc = "fetch"
  /\ fetchResult' = "failed"
  /\ fetchCount' = fetchCount + 1
  /\ getCount' = getCount + 1
  /\ exitCode' = 1
  /\ pc' = "exited"
  /\ UNCHANGED <<inputVars, content, exc, loopVars, callVars, files, audioWrites, writtenPaths,
                 metaWrites, attempted, trueReturns, falseReturns, fsErrors, paceSleeps>>

\* ---------------------------------------------------------------- main
\* if content is not None
ContentNotNone(c) == c # "none"

\* if content: -- an empty body (b'') is falsy, like None
ContentTruthy(c) == c = "feed"

\* if content: parse_and_download(...), then main returns
MainContentCheck ==
  /\ pc = "fetched"
  /\ IF ContentTruthy(content)
       THEN pc' = "prepass" /\ UNCHANGED exitCode
       ELSE pc' = "skipped" /\ exitCode' = 0
  /\ UNCHANGED <<inputVars, content, fetchResult, fetchCount, exc, loopVars, callVars,
                 files, getCount, audioWrites, writtenPaths, metaWrites, attempted, trueReturns,
                 falseReturns, fsErrors, paceSleeps>>

\* an exception no handler catches leaves main(): traceback, exit status 1
MainUncaught ==
  /\ pc = "raise"
  /\ pc' = "crashed"
  /\ exitCode' = 1
  /\ UNCHANGED <<inputVars, content, fetchResult, fetchCount, exc, loopVars, callVars,
                 files, getCount, audioWrites, writtenPaths, metaWrites, attempted, trueReturns,
                 falseReturns, fsErrors, paceSleeps>>

\* --------------------------------------------------- parse_and_download
\* a count of the entries that have links at all
CountLinkedEntries(f) == Cardinality({i \in 1..Len(f) : f[i].links.hasLinks})

\* sum(1 for entry in feed.entries if any(link.type == 'audio/mpeg' ...))
CountAudioEntries(f) == Cardinality({i \in 1..Len(f) : HasAudio(f[i])})

PrePass ==
  /\ pc = "prepass"
  /\ total_audio_files' = CountAudioEntries(feed)
  /\ audio_file_counter' = 0
  /\ successful_downloads' = 0
  /\ ei' = 1 /\ li' = 1
  /\ pc' = "loop"
  /\ UNCHANGED <<inputVars, mainVars, exc, callVars, files, getCount, runLog, fsErrors>>

\* for entry in feed.entries: exhausted, the summary is logged, main returns
LoopDone ==
  /\ pc = "loop"
  /\ ei > Len(feed)
  /\ pc' = "done"
  /\ exitCode' = 0
  /\ UNCHANGED <<inputVars, content, fetchResult, fetchCount, exc, loopVars, callVars,
                 files, getCount, runLog, fsErrors>>

\* if 'links' in entry: false
LoopSkipEntry ==
  /\ pc = "loop"
  /\ ei <= Len(feed)
  /\ ~feed[ei].links.hasLinks
  /\ ei' = ei + 1 /\ li' = 1
  /\ UNCHANGED <<inputVars, mainVars, pc, exc, total_audio_files, audio_file_counter,
                 successful_downloads, callVars, files, getCount, runLog, fsErrors>>

\* for link in entry.links: exhausted
LoopEntryEnd ==
  /\ pc = "loop"
  /\ ei <= Len(feed)
  /\ feed[ei].links.hasLinks
  /\ li > Len(feed[ei].links.list)
  /\ ei' = ei + 1 /\ li' = 1
  /\ UNCHANGED <<inputVars, mainVars, pc, exc, total_audio_files, audio_file_counter,
                 successful_downloads, callVars, files, getCount, runLog, fsErrors>>

\* a loop with no type test: every link is downloaded
IsAnyLink(t) == t \in LinkTypes

\* if link.type == 'audio/mpeg'
IsAudioLink(t) == t = AudioType

AtLink ==
  /\ pc = "loop"
  /\ ei <= Len(feed)
  /\ feed[ei].links.hasLinks
  /\ li <= Len(feed[ei].links.list)

\* if link.type == 'audio/mpeg': false
LoopSkipLink ==
  /\ AtLink
  /\ ~IsAudioLink(feed[ei].links.list[li])
  /\ li' = li + 1
  /\ UNCHANGED <<inputVars, mainVars, pc, exc, ei, total_audio_files, audio_file_counter,
                 successful_downloads, callVars, files, getCount, runLog, fsErrors>>

\* an audio link of an entry with no title: entry.title raises AttributeError
SelectNoTitle ==
  /\ AtLink
  /\ IsAudioLink(feed[ei].links.list[li])
  /\ ~feed[ei].title.hasTitle
  /\ audio_file_counter' = audio_file_counter + 1
  /\ exc' = "AttributeError"
  /\ pc' = "raise"
  /\ UNCHANGED <<inputVars, mainVars, ei, li, total_audio_files, successful_downloads,
                 callVars, files, getCount, runLog, fsErrors>>

\* an audio link: count it, derive the file name, call download_file(link.href, filename)
StartDownload ==
  /\ AtLink
  /\ IsAudioLink(feed[ei].links.list[li])
  /\ feed[ei].title.hasTitle
  /\ audio_file_counter' = audio_file_counter + 1
  /\ url' = Href(ei, li)
  /\ filename' = FileName(sanitize_title(feed[ei].title.text, feed[ei].published))
  /\ retries' = DefaultRetries
  /\ attempt' = 0
  /\ result' = "none"
  /\ filesAtCall' = files
  /\ calltrace' = <<>>
  /\ attempted' = Append(attempted, Href(ei, li))
  /\ pc' = "dl_loop"
  /\ UNCHANGED <<inputVars, mainVars, exc, ei, li, total_audio_files, successful_downloads,
                 files, getCount, audioWrites, writtenPaths, metaWrites, trueReturns, falseReturns,
                 fsErrors, paceSleeps>>

\* -------------------------------------------------------- download_file
\* what requests.get(url) meets
GetOutcomes == {"ok", "http-error", "network-error"}

\* a download_file that forgets response.raise_for_status()
RaisesOnNetworkErrorOnly(outcome) == outcome = "network-error"

\* requests.get raises on a network failure, raise_for_status on an error status
RaisesRequestException(outcome) == outcome # "ok"

GetEvent(outcome) == IF outcome = "ok" THEN GetOk ELSE GetFail

\* a loop that runs once too often
MayAttemptOffByOne(a, r) == a <= r

\* while attempt < retries
MayAttempt(a, r) == a < r

\* a linear backoff
BackoffLinear(a) == BackoffBase * a

\* sleep_time = 2 ** attempt
BackoffSeconds(a) == Pow(BackoffBase, a)

\* if attempt < retries: ... time.sleep(sleep_time)
SleepsAfterFailure(a, r) == a < r

\* the request fails: count the attempt, log, back off unless it was the last one
DlRequestFail ==
  /\ pc = "dl_loop"
  /\ MayAttempt(attempt, retries)
  /\ \E outcome \in GetOutcomes :
       /\ RaisesRequestException(outcome)
       /\ calltrace' = calltrace \o <<GetEvent(outcome)>> \o
            (IF SleepsAfterFailure(attempt + 1, retries)
               THEN <<Slept(BackoffSeconds(attempt + 1))>> ELSE <<>>)
  /\ attempt' = attempt + 1
  /\ getCount' = getCount + 1
  /\ UNCHANGED <<inputVars, mainVars, pc, exc, loopVars, url, filename, retries, result,
                 filesAtCall, files, runLog, fsErrors>>

\* the request succeeds, the body is written to filename: return True
DlRequestOkWrite ==
  /\ pc = "dl_loop"
  /\ MayAttempt(attempt, retries)
  /\ \E outcome \in GetOutcomes :
       /\ ~RaisesRequestException(outcome)
       /\ calltrace' = calltrace \o <<GetEvent(outcome), Wrote>>
  /\ files' = WriteFile(files, filename, Body(url))
  /\ audioWrites' = audioWrites + 1
  /\ writtenPaths' = Append(writtenPaths, filename)
  /\ getCount' = getCount + 1
  /\ result' = "true"
  /\ trueReturns' = trueReturns + 1
  /\ pc' = "dl_return"
  /\ UNCHANGED <<inputVars, mainVars, exc, loopVars, url, filename, retries, attempt,
                 filesAtCall, metaWrites, attempted, falseReturns, fsErrors, paceSleeps>>

\* the request succeeds, open(filename, 'wb') or file.write raises OSError, which
\* except requests.RequestException does not catch
DlRequestOkOSError ==
  /\ pc = "dl_loop"
  /\ MayAttempt(attempt, retries)
  /\ \E outcome \in GetOutcomes :
       /\ ~RaisesRequestException(outcome)
       /\ calltrace' = Append(calltrace, GetEvent(outcome))
  /\ \E stage \in {"open", "write"} :
       files' = IF stage = "open" THEN files ELSE WriteFile(files, filename, Partial(url))
  /\ getCount' = getCount + 1
  /\ fsErrors' = fsErrors + 1
  /\ exc' = "OSError"
  /\ pc' = "raise"
  /\ UNCHANGED <<inputVars, mainVars, loopVars, url, filename, retries, attempt, result,
                 filesAtCall, runLog>>

\* the while condition is false: return False
DlExhausted ==
  /\ pc = "dl_loop"
  /\ ~MayAttempt(attempt, retries)
  /\ result' = "false"
  /\ falseReturns' = falseReturns + 1
  /\ pc' = "dl_return"
  /\ UNCHANGED <<inputVars, mainVars, exc, loopVars, url, filename, retries, attempt,
                 filesAtCall, calltrace, files, getCount, audioWrites, writtenPaths, metaWrites,
                 attempted, trueReturns, fsErrors, paceSleeps>>

\* ---------------------------------- parse_and_download, after the call
\* successful_downloads += 1 placed outside the if download_file(...) test
CountedWhateverResult(res) == res \in {"true", "false"}

\* if download_file(link.href, filename): successful_downloads += 1
Counted(res) == res = "true"

\* save_text_file called outside the if download_file(...) block
SavesTextWhateverResult(res, st) == st

\* ... if save_text: save_text_file(entry, filename)
SavesText(res, st) == res = "true" /\ st

\* f"{filename}.txt"
TextFileName(f) == f \o TxtSuffix

NewSuccessful == successful_downloads + (IF Counted(result) THEN 1 ELSE 0)

\* no metadata file is asked for, or the download failed
AfterDownloadNoText ==
  /\ pc = "dl_return"
  /\ ~SavesText(result, save_text)
  /\ successful_downloads' = NewSuccessful
  /\ pc' = "sleep"
  /\ UNCHANGED <<inputVars, mainVars, exc, ei, li, total_audio_files, audio_file_counter,
                 callVars, files, getCount, runLog, fsErrors>>

\* save_text_file writes the four lines
AfterDownloadSaveText ==
  /\ pc = "dl_return"
  /\ SavesText(result, save_text)
  /\ successful_downloads' = NewSuccessful
  /\ files' = WriteFile(files, TextFileName(filename), Meta(ei))
  /\ metaWrites' = metaWrites + 1
  /\ pc' = "sleep"
  /\ UNCHANGED <<inputVars, mainVars, exc, ei, li, total_audio_files, audio_file_counter,
                 callVars, getCount, audioWrites, writtenPaths, attempted, trueReturns, falseReturns,
                 fsErrors, paceSleeps>>

\* save_text_file: open(..., 'w') or file.write raises OSError; nothing catches it
AfterDownloadSaveTextError ==
  /\ pc = "dl_return"
  /\ SavesText(result, save_text)
  /\ successful_downloads' = NewSuccessful
  /\ \E stage \in {"open", "write"} :
       files' = IF stage = "open" THEN files
                ELSE WriteFile(files, TextFileName(filename), MetaPartial(ei))
  /\ fsErrors' = fsErrors + 1
  /\ exc' = "OSError"
  /\ pc' = "raise"
  /\ UNCHANGED <<inputVars, mainVars, ei, li, total_audio_files, audio_file_counter,
                 callVars, getCount, runLog>>

\* the pacing delay placed inside the if download_file(...) block
PaceDelaysOnlyAfterSuccess(res) == IF res = "true" THEN <<PaceSeconds>> ELSE <<>>

\* time.sleep(1) at the end of the link's block, whatever download_file returned
PaceDelays(res) == <<PaceSeconds>>

\* logging.info(...); time.sleep(1); on to the next link
PaceSleep ==
  /\ pc = "sleep"
  /\ paceSleeps' = paceSleeps \o PaceDelays(result)
  /\ li' = li + 1
  /\ pc' = "loop"
  /\ UNCHANGED <<inputVars, mainVars, exc, ei, total_audio_files, audio_file_counter,
                 successful_downloads, callVars, files, getCount, audioWrites, writtenPaths, metaWrites,
                 attempted, trueReturns, falseReturns, fsErrors>>

\* ------------------------------------------------------ specifications
Next ==
  \/ FetchOk \/ FetchFail \/ MainContentCheck \/ MainUncaught
  \/ PrePass \/ LoopDone \/ LoopSkipEntry \/ LoopEntryEnd \/ LoopSkipLink
  \/ SelectNoTitle \/ StartDownload
  \/ DlRequestFail \/ DlRequestOkWrite \/ DlRequestOkOSError \/ DlExhausted
  \/ AfterDownloadNoText \/ AfterDownloadSaveText \/ AfterDownloadSaveTextError
  \/ PaceSleep

\* one run of the program
Spec == Init /\ [][Next]_vars

\* one run of the program that is not suspended for ever: the interpreter goes on
\* to the next statement, every request and every sleep returns
SpecFair == Spec /\ WF_vars(Next)

\* one call download_file(url, filename, retries), for any retries, with save_dir
\* empty, holding the destination file already, or holding another file
InitDL ==
  /\ feed = <<>>
  /\ save_text = FALSE
  /\ pc = "dl_loop"
  /\ content = "feed" /\ fetchResult = "ok" /\ exitCode = -1 /\ exc = "none"
  /\ ei = 1 /\ li = 1
  /\ total_audio_files = 0 /\ audio_file_counter = 0 /\ successful_downloads = 0
  /\ files \in {NoFiles, WriteFile(NoFiles, StandaloneFile, Old),
                WriteFile(NoFiles, TextFileName(StandaloneFile), Old)}
  /\ filesAtCall = files
  /\ url = StandaloneUrl /\ filename = StandaloneFile
  /\ retries \in 0..MaxRetries
  /\ attempt = 0 /\ result = "none" /\ calltrace = <<>>
  /\ CleanLog

NextDL == DlRequestFail \/ DlRequestOkWrite \/ DlRequestOkOSError \/ DlExhausted

SpecDL == InitDL /\ [][NextDL]_vars

\* the characters of a title: each illegal character, an upper-case and a
\* lower-case letter, a space, an underscore, a punctuation mark, and an upper-case
\* letter that has no lower-case form (U+2102, which str.lower() returns unchanged)
DoubleStruckC == "U+2102"
TitleChars ==
  {"\\", "/", "*", "?", ":", "\"", "<", ">", "|", "A", "b", " ", "_", "!", DoubleStruckC}

\* entry.title: a string of up to MaxTitleLen characters, or no 'title' key
SanTitles ==
  {NoTitle} \cup {Title(t) : t \in UNION {[1..n -> TitleChars] : n \in 0..MaxTitleLen}}

\* entry.get('published', None)
SanDates == {NoDate, EmptyDate, GoodDate, BadDate}

\* parse_and_download stands at the audio link of a feed's only entry
InitSan ==
  /\ feed \in {<<[links |-> [hasLinks |-> TRUE, list |-> <<AudioType>>],
                  title |-> t, published |-> d]>> : t \in SanTitles, d \in SanDates}
  /\ save_text = FALSE
  /\ pc = "loop"
  /\ content = "feed" /\ fetchResult = "ok" /\ exitCode = -1 /\ exc = "none"
  /\ ei = 1 /\ li = 1
  /\ total_audio_files = 1 /\ audio_file_counter = 0 /\ successful_downloads = 0
  /\ files = NoFiles
  /\ NoCall
  /\ CleanLog

\* the file name is derived and download_file is called, or entry.title raises
NextSan == StartDownload \/ SelectNoTitle

SpecSan == InitSan /\ [][NextSan]_vars

\* ---------------------------------------------- reading a call's trace
IsGet(e) == e.ev \in {"get-ok", "get-fail"}
GetCount(tr) == Cardinality({i \in 1..Len(tr) : IsGet(tr[i])})
WriteCount(tr) == Cardinality({i \in 1..Len(tr) : tr[i] = Wrote})
\* the number of failed requests among the first i events
FailuresUpTo(tr, i) == Cardinality({j \in 1..i : tr[j] = GetFail})

\* ------------------------------------------------------------------ C1
\* C1: a download_file call issues at most `retries` GETs; a GET that succeeds is
\* the last one of the call, and a call that returns after it returns true; a call
\* returns false only after exactly `retries` GETs, all of them failed.
C1_RequestBound ==
  /\ GetCount(calltrace) <= retries
  /\ \A i \in 1..Len(calltrace) :
       calltrace[i] = GetOk => \A j \in (i + 1)..Len(calltrace) : ~IsGet(calltrace[j])
  /\ result = "true" =>
       /\ \E i \in 1..Len(calltrace) : calltrace[i] = GetOk
       /\ GetCount(calltrace) = attempt + 1
  /\ result = "false" =>
       /\ GetCount(calltrace) = retries
       /\ \A i \in 1..Len(calltrace) : calltrace[i] # GetOk
  /\ (pc = "dl_return" /\ \E i \in 1..Len(calltrace) : calltrace[i] = GetOk) => result = "true"

\* two failures, then a success, with retries = 3: true after 3 requests
C1_Witness ==
  /\ retries = 3
  /\ pc = "dl_return"
  /\ result = "true"
  /\ calltrace = <<GetFail, Slept(2), GetFail, Slept(4), GetOk, Wrote>>

\* ------------------------------------------------------------------ C2
\* C2: the destination file is written only right after a GET that succeeded; a call
\* that returns true has written the destination path exactly once (it holds the
\* response body, every other file is as it was); a call that returns false has
\* written nothing and every file, the destination included, is as it was.
C2_WriteOnlyAfterSuccess ==
  /\ \A i \in 1..Len(calltrace) :
       calltrace[i] = Wrote => (i > 1 /\ calltrace[i - 1] = GetOk)
  /\ files # filesAtCall => \E i \in 1..Len(calltrace) : calltrace[i] = GetOk
  /\ result = "true" =>
       /\ WriteCount(calltrace) = 1
       /\ files = WriteFile(filesAtCall, filename, Body(url))
  /\ result = "false" =>
       /\ WriteCount(calltrace) = 0
       /\ files = filesAtCall

\* every request failed and the file that was at the destination is still there
C2_Witness ==
  /\ pc = "dl_return"
  /\ result = "false"
  /\ retries = 3
  /\ filename \in DOMAIN files
  /\ files[filename] = Old

\* ------------------------------------------------------------------ C3
\* C3: the k-th failed request of a call is followed at once by a sleep of 2^k
\* seconds when k < retries and by no sleep when k = retries; a successful request
\* is followed by no sleep; the call sleeps nowhere else.
C3_Backoff ==
  \A i \in 1..Len(calltrace) :
    LET k == FailuresUpTo(calltrace, i)
        sleepsNext == i < Len(calltrace) /\ calltrace[i + 1].ev = "sleep"
    IN /\ calltrace[i] = GetFail =>
            IF k < retries
              THEN i < Len(calltrace) /\ calltrace[i + 1] = Slept(2 ^ k)
              ELSE ~sleepsNext
       /\ calltrace[i] = GetOk => ~sleepsNext
       /\ calltrace[i].ev = "sleep" => (i > 1 /\ calltrace[i - 1] = GetFail)

\* four attempts fail: sleeps of 2, 4 and 8 seconds, none after the last failure
C3_Witness ==
  /\ retries = 4
  /\ result = "false"
  /\ calltrace = <<GetFail, Slept(2), GetFail, Slept(4), GetFail, Slept(8), GetFail>>

\* ------------------------------------------------------ reading a feed
\* the audio/mpeg links of a feed, as (entry, link) positions
AudioLinks(f) ==
  {p \in (1..Len(f)) \X (1..MaxLinks) :
     /\ f[p[1]].links.hasLinks
     /\ p[2] <= Len(f[p[1]].links.list)
     /\ f[p[1]].links.list[p[2]] = AudioType}
\* the entries with at least one audio/mpeg link
AudioEntries(f) == {i \in 1..Len(f) : \E p \in AudioLinks(f) : p[1] = i}
AtMostOneAudioPerEntry(f) == Cardinality(AudioLinks(f)) = Cardinality(AudioEntries(f))
AllTitled(f) == \A i \in AudioEntries(f) : f[i].title.hasTitle
Terminated == exitCode # -1

\* ------------------------------------------------------------------ C4
\* C4: at the final summary the total counted by the pre-pass equals the number of
\* links the main loop attempted (the final value of audio_file_counter).
C4_TotalEqualsAttempted ==
  pc = "done" => total_audio_files = audio_file_counter

\* ------------------------------------------------------------------ C5
\* C5: a metadata file is written (or begun) only in the step that follows a
\* download_file call which returned true, and only when save_text is set: there
\* are never more metadata writes than true returns, and none without save_text.
TextFiles(fs) == {<<p, fs[p]>> : p \in {q \in DOMAIN fs : fs[q].kind \in {"meta", "meta-partial"}}}

C5_MetadataOnlyAfterSuccess ==
  /\ [](metaWrites <= trueReturns /\ (~save_text => metaWrites = 0 /\ TextFiles(files) = {}))
  /\ [][(metaWrites' # metaWrites \/ TextFiles(files') # TextFiles(files))
          => (pc = "dl_return" /\ result = "true" /\ save_text)]_vars

\* a run with save_text in which one download failed and one succeeded: one
\* metadata file
C5_Witness ==
  /\ pc = "done"
  /\ save_text
  /\ falseReturns = 1
  /\ trueReturns = 1
  /\ metaWrites = 1

\* ------------------------------------------------------------------ C6
\* C6: when the feed fetch fails the process has exited with status 1 after one
\* GET, and no entry was processed, no download attempted and no file written.
C6_FetchFailureIsFatal ==
  fetchResult = "failed" =>
    /\ pc = "exited"
    /\ exitCode = 1
    /\ fetchCount = 1
    /\ getCount = 1
    /\ ei = 0
    /\ audio_file_counter = 0
    /\ attempted = <<>>
    /\ DOMAIN files = {}
    /\ audioWrites = 0 /\ metaWrites = 0

\* the fetch failed for a feed that has an audio link to download
C6_Witness ==
  /\ fetchResult = "failed"
  /\ pc = "exited"
  /\ AudioLinks(feed) # {}

\* ------------------------------------------------------------------ C7
\* C7: once the fetch has succeeded a filesystem error (open or write raising
\* OSError in download_file or save_text_file) is absorbed: the process does not end
\* abnormally, it ends with exit status 0.
C7_FilesystemErrorAbsorbed ==
  (fetchResult = "ok" /\ fsErrors > 0) => (pc # "crashed" /\ exitCode \in {-1, 0})

\* ------------------------------------------------------------------ C8
\* C8: in a run that has ended after a download_file call returned false (every
\* entry with an audio link having a title), the final summary was logged and every
\* audio link of the feed was attempted.
C8_FailedDownloadDoesNotEndRun ==
  (falseReturns > 0 /\ AllTitled(feed) /\ Terminated) =>
    /\ pc = "done"
    /\ Len(attempted) = Cardinality(AudioLinks(feed))

\* ------------------------------------------------------------------ C9
\* C9: at the final summary of a feed whose entries have at most one audio link
\* each, when every download_file call returned true: successful and total are both
\* N, the number of entries with an audio link, N audio files were written, and N
\* metadata files when save_text is set, none otherwise.
C9_AllSucceed ==
  (pc = "done" /\ AtMostOneAudioPerEntry(feed) /\ trueReturns = audio_file_counter) =>
    LET N == Cardinality(AudioEntries(feed))
    IN /\ successful_downloads = N
       /\ total_audio_files = N
       /\ audio_file_counter = N
       /\ audioWrites = N
       /\ metaWrites = (IF save_text THEN N ELSE 0)

\* two entries, the first with one audio link, the second with a link that is not
\* audio, save_text set: 1 of 1
C9_Witness ==
  /\ pc = "done"
  /\ save_text
  /\ Len(feed) = 2
  /\ AudioEntries(feed) = {1}
  /\ feed[2].links.hasLinks
  /\ AtMostOneAudioPerEntry(feed)
  /\ successful_downloads = 1
  /\ total_audio_files = 1
  /\ metaWrites = 1

\* ----------------------------------------------------------------- C10
ProcessEntered == pc = "prepass" \/ ei >= 1

\* C10 as claimed: whenever the fetch succeeded and main has looked at the content,
\* parse_and_download has been entered, whatever the body; fetch_rss_feed ran once.
C10_AlwaysProcess ==
  /\ fetchResult # "none" => fetchCount = 1
  /\ (fetchResult = "ok" /\ pc # "fetched") => ProcessEntered

\* C10 as amended: after a successful fetch of a non-empty body parse_and_download
\* is entered; after a successful fetch of an empty body it is not, and the process
\* ends with exit status 0 having processed nothing; fetch_rss_feed ran once.
C10_ProcessUnlessEmpty ==
  /\ fetchCount <= 1
  /\ fetchResult # "none" => fetchCount = 1
  /\ (fetchResult = "ok" /\ pc # "fetched" /\ content = "feed") => ProcessEntered
  /\ (fetchResult = "ok" /\ pc # "fetched" /\ content = "empty") =>
       /\ pc = "skipped"
       /\ exitCode = 0
       /\ ~ProcessEntered
       /\ attempted = <<>>
       /\ DOMAIN files = {}

\* a non-empty body with no entry at all is still processed
C10_Witness ==
  /\ fetchResult = "ok"
  /\ content = "feed"
  /\ feed = <<>>
  /\ pc = "done"

\* ----------------------------------------------------------------- C11
\* the positions (entry, link) of all the links of the first n entries, entry by
\* entry in feed order and link by link in link order
RECURSIVE LinkPositions(_, _)
LinkPositions(f, n) ==
  IF n = 0 THEN <<>>
  ELSE LinkPositions(f, n - 1) \o
       (IF f[n].links.hasLinks
          THEN [j \in 1..Len(f[n].links.list) |-> <<n, j>>]
          ELSE <<>>)
\* ... those of type audio/mpeg
AudioSubsequence(f) ==
  SelectSeq(LinkPositions(f, Len(f)), LAMBDA p : f[p[1]].links.list[p[2]] = "audio/mpeg")
IsPrefix(s, t) == Len(s) <= Len(t) /\ s = SubSeq(t, 1, Len(s))

\* C11: the urls passed to download_file so far are always a prefix of the feed's
\* links of type audio/mpeg taken in feed order and link order, and at the final
\* summary they are exactly that subsequence: no link of another type is ever
\* downloaded, and an exception is only ever raised at or after an audio link (an
\* entry without links and a link of another type are skipped without error).
C11_AudioLinksInOrder ==
  /\ IsPrefix(attempted, AudioSubsequence(feed))
  /\ pc = "done" => attempted = AudioSubsequence(feed)
  /\ exc # "none" => audio_file_counter >= 1

\* an entry without links, then an entry with a text/html link followed by an
\* audio/mpeg link: only the second link of the second entry is downloaded
C11_Witness ==
  /\ pc = "done"
  /\ Len(feed) = 2
  /\ ~feed[1].links.hasLinks
  /\ feed[2].links.hasLinks
  /\ feed[2].links.list = <<OtherType, AudioType>>
  /\ attempted = << <<2, 2>> >>

\* ----------------------------------------------------------------- C12
\* C12: no two download_file calls of a run write the same destination path: the
\* paths written are pairwise different.
C12_EachPathWrittenOnce ==
  \A i, j \in 1..Len(writtenPaths) : i # j => writtenPaths[i] # writtenPaths[j]

\* ----------------------------------------------------------------- C13
\* C13: whenever the next download may start or the summary is logged, every
\* attempted link has been followed by exactly one sleep of 1 second; no sleep
\* happens while a link is being downloaded, and when the sleep is due the
\* download has returned and the metadata file it asks for has been written.
C13_OneSleepPerAttempt ==
  /\ \A i \in 1..Len(paceSleeps) : paceSleeps[i] = 1
  /\ pc \in {"loop", "done"} => Len(paceSleeps) = Len(attempted)
  /\ pc \in {"dl_loop", "dl_return", "sleep"} => Len(paceSleeps) = Len(attempted) - 1
  /\ pc = "sleep" =>
       /\ result \in {"true", "false"}
       /\ trueReturns + falseReturns = Len(attempted)
       /\ save_text => metaWrites = trueReturns

\* a failed and a successful link, each followed by its sleep, then the summary
C13_Witness ==
  /\ pc = "done"
  /\ falseReturns = 1 /\ trueReturns = 1 /\ metaWrites = 1
  /\ paceSleeps = <<1, 1>>

\* ----------------------------------------------------------------- C14
\* C14: an audio link of an entry whose title is missing does not end the run
\* with an exception: no AttributeError is raised, and every audio link the loop
\* has counted has been passed to download_file.
C14_UntitledEntryDoesNotCrash ==
  /\ exc # "AttributeError"
  /\ audio_file_counter = Len(attempted)

\* ----------------------------------------------------------- C15, C16
\* the stem of the file name handed to download_file: sanitize_title's result
Stem == SubSeq(filename, Len(SaveDir) + 1, Len(filename) - Len(Extension))

\* the title and the date of the entry sanitize_title is called for
GivenTitle == feed[1].title
GivenDate == feed[1].published

\* what the claims expect of a title, character by character: an illegal character
\* is dropped, a space becomes an underscore, a letter that has a lower-case form
\* takes it, any other character stays
ExpectedChar(c) ==
  CASE c = " " -> "_"
    [] c = "A" -> "a"
    [] OTHER -> c
RECURSIVE ExpectedTitle(_)
ExpectedTitle(t) ==
  IF t = <<>> THEN <<>>
  ELSE (IF Head(t) \in {"\\", "/", "*", "?", ":", "\"", "<", ">", "|"}
          THEN <<>> ELSE <<ExpectedChar(Head(t))>>) \o ExpectedTitle(Tail(t))

\* C15: for a published date that is present and does not parse, the stem is the
\* sanitized title with no prefix, the same as with no date; no exception is
\* raised and the link is passed to download_file.
C15_UnparsableDateGivesNoPrefix ==
  (GivenTitle.hasTitle /\ GivenDate \in {BadDate, EmptyDate}) =>
    /\ exc = "none"
    /\ pc \in {"loop", "dl_loop"}
    /\ pc = "dl_loop" =>
         /\ Stem = sanitize_title(GivenTitle.text, NoDate)
         /\ Stem = ExpectedTitle(GivenTitle.text)
         /\ attempted = <<Href(1, 1)>>

\* a title with an upper-case letter and a space under a date with a numeric zone
C15_Witness ==
  /\ pc = "dl_loop"
  /\ GivenDate = BadDate
  /\ GivenTitle = Title(<<"A", " ">>)
  /\ Stem = <<"a", "_">>
  /\ attempted = <<Href(1, 1)>>

\* the stem without the date prefix
DatePrefixText == <<"2", "0", "2", "3", "-", "0", "1", "-", "0", "2", "_">>
TitlePart ==
  IF Len(Stem) >= Len(DatePrefixText) /\ SubSeq(Stem, 1, Len(DatePrefixText)) = DatePrefixText
    THEN SubSeq(Stem, Len(DatePrefixText) + 1, Len(Stem))
    ELSE Stem

\* C16 as stated: the title part holds no illegal character, no space and no
\* upper-case letter, and it is the title's other characters in their order.
C16_NoUpperCaseLetter ==
  (pc = "dl_loop") =>
    /\ \A i \in 1..Len(TitlePart) :
         TitlePart[i] \notin {"\\", "/", "*", "?", ":", "\"", "<", ">", "|", " ", "A", DoubleStruckC}
    /\ TitlePart = ExpectedTitle(GivenTitle.text)

\* C16, amended: the title part holds no illegal character, no space and no
\* letter that has a lower-case form, and it is the title's other characters in
\* their order, spaces as underscores and letters in their lower-case form; an
\* upper-case letter without a lower-case form stays.
C16_SanitizedTitle ==
  (pc = "dl_loop") =>
    /\ \A i \in 1..Len(TitlePart) :
         TitlePart[i] \notin {"\\", "/", "*", "?", ":", "\"", "<", ">", "|", " ", "A"}
    /\ TitlePart = ExpectedTitle(GivenTitle.text)
    /\ Len(Stem) - Len(TitlePart) = (IF GivenDate = GoodDate THEN Len(DatePrefixText) ELSE 0)

\* an illegal character and an upper-case letter under a date that parses
C16_Witness ==
  /\ pc = "dl_loop"
  /\ GivenDate = GoodDate
  /\ GivenTitle = Title(<<"|", "A">>)
  /\ TitlePart = <<"a">>

\* ----------------------------------------------------------------- C17
\* C17: in every state successful_downloads <= audio_file_counter; no step lowers
\* either counter; at the final summary successful_downloads is the number of
\* download_file calls that returned true and audio_file_counter is the number
\* of download_file calls made.
C17_Counters ==
  /\ [](successful_downloads <= audio_file_counter)
  /\ [][/\ successful_downloads' >= successful_downloads
        /\ audio_file_counter' >= audio_file_counter]_vars
  /\ [](pc = "done" =>
          /\ successful_downloads = trueReturns
          /\ audio_file_counter = Len(attempted)
          /\ audio_file_counter = trueReturns + falseReturns)

\* the summary after one call that returned true and one that returned false
C17_Witness ==
  /\ pc = "done"
  /\ trueReturns = 1 /\ falseReturns = 1
  /\ successful_downloads = 1 /\ audio_file_counter = 2

\* ----------------------------------------------------------------- C18
\* the GET requests of a run: one for the feed, up to three for each audio link
GetBound == 1 + DefaultRetries * Cardinality(AudioLinks(feed))

\* C18: every run comes to its end by the fatal exit of the feed fetch or by
\* logging the final summary, and it never issues more than
\* 1 + 3 x (number of audio/mpeg links) GET requests.
C18_EndsByExitOrSummary ==
  /\ <>(pc \in {"exited", "done"})
  /\ [](getCount <= GetBound)

====
